---- MODULE Spec2Model ----
(***************************************************************************)
(* A model of the SecretScanner scan engine:                               *)
(*   src/jobs/scan.go          DispatchScan and the finding writers        *)
(*   src/scan/process_image.go the traversal driver (batch and stream),    *)
(*                             the image extractor and untar               *)
(*                                                                         *)
(* A scan request is a task.  Every per-scan piece of state is a function  *)
(* of the task, so that several dispatched scans can run side by side.     *)
(* The file system a scan walks is part of the request: a walk is the      *)
(* sequence of directory entries filepath.WalkDir presents, in its order.  *)
(***************************************************************************)
EXTENDS Integers, Sequences, FiniteSets, TLC

VARIABLES
    opts,       \* session options: [max_secrets]
    req,        \* task -> the request and the file system / image it names
    ScanMap,    \* jobs.ScanMap: scan_id -> the task whose context is stored
    task,       \* task -> the DispatchScan / ExtractAndScanImage goroutine
    cancelled,  \* task -> the ScanContext's cancellation flag
    walk,       \* task -> the WalkDir callback's state (one walker per scan)
    layerG,     \* task -> the layer loop goroutine of processImageLayersStream
    relayG,     \* task -> the relay goroutine of ExtractAndScanImageStream
    stream,     \* task -> channel made by ScanSecretsInDirStream / processImageLayersStream
    relay,      \* task -> channel made by ExtractAndScanImageStream
    resChan,    \* task -> the status reporter's result channel
    written,    \* task -> findings written by writeSingleScanData, in order
    tmpDir,     \* task -> the temp workspace: "none", "exists", "deleted"
    panicked,   \* task -> a send on a closed channel or a second close happened
    late,       \* task -> history: the findings sent since cancel was signalled
    ut,         \* one call of untar: the archive, the position, the files made
    pure        \* one call of a function without side effects: input and result

vars == <<opts, req, ScanMap, task, cancelled, walk, layerG, relayG, stream,
          relay, resChan, written, tmpDir, panicked, late, ut, pure>>

----------------------------------------------------------------------------
(* Bounds of the model *)

MaxFiles == 2       \* directory entries in one walk
MaxHits == 2        \* content findings one file can yield
MaxCap == 2         \* the small values of max-secrets
MaxLayers == 2      \* layers in an image manifest
MaxTarEntries == 2  \* entries in a tar archive
MaxNameLen == 2     \* path components in a tar entry's name
LateCap == 2        \* the count of findings sent after cancel saturates here
MaxSuffixes == 2    \* suffix tokens at the end of a manifest layer entry
MaxManifestLen == 2 \* entries in the array of manifest.json
MaxPathLen == 3     \* components of a finding's full_filename
MaxMultiWrite == 2  \* findings in one writeMultiScanData call
MaxFileLen == 3     \* bytes of a file handed to readFile

(* Program constants *)

secret_pipeline_size == 100
DefaultMaxSecrets == 1000
DefaultMaximumFileSize == 256
DefaultMaxMultiMatch == 3

\* maxFileSize := *session.Options.MaximumFileSize * 1024, the option at its
\* default.
maxFileSize == DefaultMaximumFileSize * 1024

Min(a, b) == IF a < b THEN a ELSE b

Tasks == DOMAIN req

----------------------------------------------------------------------------
(* Findings and channels *)

Finding(l, i, p, k) == [layer |-> l, file |-> i, part |-> p, n |-> k]

FindingsOf(l, i, p, n) == [k \in 1..n |-> Finding(l, i, p, k)]

NewChan == [buf |-> <<>>, closed |-> FALSE]

\* A send proceeds when the buffer has room; on a closed channel it panics at once.
CanSend(ch) == ch.closed \/ Len(ch.buf) < secret_pipeline_size

ChanSend(ch, x) == IF ch.closed THEN ch ELSE [ch EXCEPT !.buf = Append(@, x)]

ChanClose(ch) == [ch EXCEPT !.closed = TRUE]

----------------------------------------------------------------------------
(* The matchers (package signature) and the scan context (package tasks)   *)

\* Content matcher: every finding increments the counter; it stops producing
\* once the counter has reached max_secrets.  c is the number of matches the
\* file's contents hold after the per-rule multiplicity cap.
MatchPatternSignatures(c, numSecrets, max) ==
    IF numSecrets >= max THEN 0 ELSE Min(c, max - numSecrets)

\* Path/name matcher: counts toward the counter and the cap identically.
MatchSimpleSignatures(s, numSecrets, max) ==
    IF numSecrets >= max THEN 0 ELSE Min(s, max - numSecrets)

\* ScanContext.Checkpoint: an error once the context is cancelled.
Checkpoint(isCancelled) == IF isCancelled THEN "cancelled" ELSE "nil"

----------------------------------------------------------------------------
(* Inputs: directory entries, walks, images, requests *)

\* An entry of a walk, in the order WalkDir reports them: c and s are the
\* matches its contents and its path/name hold, size its length in bytes,
\* rd whether it can be opened and read, skip whether core.IsSkippableDir
\* accepts it, under whether it lies below the directory reported before it.
Dir == [kind |-> "dir", c |-> 0, s |-> 0, size |-> 0, rd |-> TRUE,
        skip |-> FALSE, under |-> FALSE]

\* An entry WalkDir reports with an error (lstat or ReadDir failed).
BadEntry == [Dir EXCEPT !.kind = "err"]

File(c, s) == [Dir EXCEPT !.kind = "file", !.c = c, !.s = s, !.size = 1]

\* A directory of the skip list, and a file below a directory.
SkipDirEntry == [Dir EXCEPT !.skip = TRUE]

InnerFile == [File(1, 1) EXCEPT !.under = TRUE]

\* Files of exactly the size limit and of one byte more.
ExactFile == [File(1, 1) EXCEPT !.size = maxFileSize]

BigFile == [File(1, 1) EXCEPT !.size = maxFileSize + 1]

\* A file os.OpenFile fails on.
UnreadableFile == [File(1, 1) EXCEPT !.rd = FALSE]

PrefilterEntries == {SkipDirEntry, InnerFile, ExactFile, BigFile, UnreadableFile}

\* A file holds up to MaxHits content matches and at most one path/name
\* match: the files with no match, with one match of each sort, and with
\* MaxHits content matches.
Files == {File(0, 0), File(1, 1), File(MaxHits, 0), File(MaxHits, 1)}

Entries == {Dir, BadEntry} \cup Files \cup PrefilterEntries

SeqsUpTo(S, n) == UNION {[1..k -> S] : k \in 0..n}

Trees == SeqsUpTo(Entries, MaxFiles)

\* One file holding more matches than a channel buffers.
BigTree == <<File(secret_pipeline_size + 2, 0)>>

\* The walks inside image layers: the prefixes of one walk of two files.
LayerWalk == <<File(1, 0), File(1, 1)>>

LayerTrees == {SubSeq(LayerWalk, 1, k) : k \in 0..Len(LayerWalk)}

\* A layer: how making its target directory and extracting its archive end,
\* and the entries found under the target directory afterwards.  Nothing is
\* unpacked when the archive cannot be opened; when closing the archive
\* fails, untar reports an error after it has unpacked.
LayerSet ==
    [status : {"mkdirFail", "openFail"}, tree : {<<>>}]
    \cup [status : {"closeFail"}, tree : {LayerWalk}]
    \cup [status : {"ok"}, tree : LayerTrees]

\* extract: how GetTmpDir and extractImage end for the image.
ExtractOutcomes == {"ok", "tmpFail", "saveFail", "untarFail", "manifestErr", "manifestLen"}

NoImage == [extract |-> "ok", layers |-> <<>>]

Images ==
    {[extract |-> x, layers |-> <<>>] : x \in ExtractOutcomes \ {"ok", "manifestLen"}}
    \cup {[extract |-> "manifestLen", layers |-> <<[status |-> "ok", tree |-> LayerWalk]>>]}
    \cup {[extract |-> "ok", layers |-> ls] : ls \in SeqsUpTo(LayerSet, MaxLayers)}

\* path: what a path request's path names: an absolute path of a directory
\* ("absDir"), a relative path of one ("relDir"), a regular file ("file"), or
\* nothing that exists ("missing").
Request(id, kind, tree, image) ==
    [scan_id |-> id, kind |-> kind, path |-> "absDir", tree |-> tree, image |-> image]

\* What WalkDir presents for a path that names no directory by an absolute
\* path: the directory's entries, the file itself, or the root with lstat's
\* error.
OtherPathRequests ==
    {[Request(1, "path", <<File(1, 0)>>, NoImage) EXCEPT !.path = k] : k \in {"relDir", "file"}}
    \cup {[Request(1, "path", <<BadEntry>>, NoImage) EXCEPT !.path = "missing"]}

\* One scan: a path request, an image request, a request naming nothing, or
\* a batch image scan (ExtractAndScanImage, the command-line surface).
SingleRequests ==
    {Request(1, "path", tr, NoImage) : tr \in Trees}
    \cup OtherPathRequests
    \cup {Request(1, k, <<>>, im) : k \in {"image", "imageBatch"}, im \in Images}
    \cup {Request(1, "invalid", <<>>, NoImage)}

\* Two dispatches of small path scans, with the same scan id or another one.
SmallTree == <<File(1, 0)>>

MultiRequests ==
    {<<Request(1, "path", SmallTree, NoImage), Request(id, "path", SmallTree, NoImage)>>
        : id \in {1, 2}}

Caps == 1..MaxCap

\* Walks on which a file that passes the prefilter follows one that cannot be
\* read, a directory that is not entered, and a file above the size limit.
PrefilterWalks ==
    {<<File(1, 0), UnreadableFile, File(1, 0)>>,
     <<File(1, 0), SkipDirEntry, InnerFile, File(1, 0)>>,
     <<File(1, 0), BigFile, ExactFile>>}

\* The inputs of a run: the requests and max-secrets.
Inputs ==
    [req : {<<r>> : r \in SingleRequests}, max : Caps \cup {DefaultMaxSecrets}]
    \cup [req : MultiRequests, max : {DefaultMaxSecrets}]
    \cup [req : {<<Request(1, "path", tr, NoImage)>> : tr \in {BigTree} \cup PrefilterWalks},
           max : {DefaultMaxSecrets}]

----------------------------------------------------------------------------
(* Initial state *)

\* fsOps is the history of what the walk did to the files: their modes
\* changed, their contents read.
IdleWalk ==
    [pc |-> "idle", i |-> 1, numSecrets |-> 0, pending |-> <<>>,
     found |-> <<>>, walkErr |-> "nil", fsOps |-> <<>>]

FsOp(op, i) == [op |-> op, file |-> i]

\* if layer != "" { core.UpdateDirsPermissionsRW(fullDir) }: l is the place of
\* the layer in the manifest, 0 standing for the empty layer id.
UpdateDirsPermissionsRW(l) == IF l # 0 THEN <<FsOp("dirsRW", 0)>> ELSE <<>>

\* The chmod made whatever the layer id.
ChmodFileAlways(l, i) == <<FsOp("chmod", i)>>

\* if layer != "" { err = os.Chmod(file.Path, 0600) }
ChmodFile(l, i) == IF l # 0 THEN <<FsOp("chmod", i)>> ELSE <<>>

\* The state of a walk when WalkDir is called.
StartWalk(l) == [IdleWalk EXCEPT !.pc = "visit", !.fsOps = UpdateDirsPermissionsRW(l)]

IdleLayerG == [pc |-> "idle", i |-> 1, numSecrets |-> 0, pending |-> <<>>, extracted |-> {}]

IdleRelayG == [pc |-> "idle", cur |-> <<>>]

\* No finding was sent after cancel.  n counts them up to LateCap.
NoLate == [n |-> 0, files |-> {}]

\* The history of task t's sends after one more finding x is sent.
Later(t, x) ==
    IF cancelled[t]
       THEN [n |-> Min(late[t].n + 1, LateCap),
             files |-> late[t].files \cup {<<x.layer, x.file>>}]
       ELSE late[t]

StartPc(kind) == IF kind = "imageBatch" THEN "bGetTmp" ELSE "start"

----------------------------------------------------------------------------
(* Everything the driver of task t has sent on its output, oldest first:   *)
(* what the consumer wrote, then what is still in the relay stage, then    *)
(* what is still in the driver's own channel.                              *)

Emitted(t) == written[t] \o relay[t].buf \o relayG[t].cur \o stream[t].buf

----------------------------------------------------------------------------
(* jobs.DispatchScan *)

\* tasks.StartStatusReporter: makes the result channel and the scan context.
StartStatusReporter(t) ==
    /\ task[t].pc = "start"
    /\ task' = [task EXCEPT ![t].pc = "store", ![t].ctx = TRUE]
    /\ UNCHANGED <<opts, req, ScanMap, cancelled, walk, layerG, relayG, stream,
                   relay, resChan, written, tmpDir, panicked, late, ut, pure>>

\* sync.Map.Store: sets the key, replacing what was stored under it.
MapStore(m, k, v) == [x \in DOMAIN m \cup {k} |-> IF x = k THEN v ELSE m[x]]

\* A Delete that leaves the map as it is.
MapDeleteKeeps(m, k) == m

\* sync.Map.Delete: removes the key, whoever stored it.
MapDelete(m, k) == [x \in DOMAIN m \ {k} |-> m[x]]

StoreScan(t) ==
    /\ task[t].pc = "store"
    /\ ScanMap' = MapStore(ScanMap, req[t].scan_id, t)
    /\ task' = [task EXCEPT ![t].pc = "branch"]
    /\ UNCHANGED <<opts, req, cancelled, walk, layerG, relayG, stream,
                   relay, resChan, written, tmpDir, panicked, late, ut, pure>>

\* r.GetPath() != "": ScanSecretsInDirStream makes the channel, starts the
\* walker goroutine and returns (res, nil).
DispatchPath(t) ==
    /\ task[t].pc = "branch"
    /\ req[t].kind = "path"
    /\ stream' = [stream EXCEPT ![t] = NewChan]
    /\ walk' = [walk EXCEPT ![t] = StartWalk(0)]
    /\ task' = [task EXCEPT ![t].pc = "consume"]
    /\ UNCHANGED <<opts, req, ScanMap, cancelled, layerG, relayG,
                   relay, resChan, written, tmpDir, panicked, late, ut, pure>>

\* A last branch that returns without setting err.
DispatchInvalidNoError(t) ==
    /\ task[t].pc = "branch"
    /\ req[t].kind = "invalid"
    /\ task' = [task EXCEPT ![t].pc = "deferDelete"]
    /\ UNCHANGED <<opts, req, ScanMap, cancelled, walk, layerG, relayG, stream,
                   relay, resChan, written, tmpDir, panicked, late, ut, pure>>

\* Neither a path nor an image nor a container: err = "Invalid request".
DispatchInvalid(t) ==
    /\ task[t].pc = "branch"
    /\ req[t].kind = "invalid"
    /\ task' = [task EXCEPT ![t].pc = "deferDelete", ![t].err = "Invalid request"]
    /\ UNCHANGED <<opts, req, ScanMap, cancelled, walk, layerG, relayG, stream,
                   relay, resChan, written, tmpDir, panicked, late, ut, pure>>

\* The channel DispatchScan ranges over.
Secrets(t) == IF req[t].kind = "path" THEN stream[t] ELSE relay[t]

\* writeSingleScanData appends the finding to the scan's output.
writeSingleScanData(out, secret) == Append(out, secret)

\* for secret := range secrets: one received finding is written.
ConsumeOne(t) ==
    /\ task[t].pc = "consume"
    /\ Secrets(t).buf # <<>>
    /\ written' = [written EXCEPT ![t] = writeSingleScanData(@, Head(Secrets(t).buf))]
    /\ IF req[t].kind = "path"
          THEN /\ stream' = [stream EXCEPT ![t].buf = Tail(@)]
               /\ UNCHANGED relay
          ELSE /\ relay' = [relay EXCEPT ![t].buf = Tail(@)]
               /\ UNCHANGED stream
    /\ UNCHANGED <<opts, req, ScanMap, task, cancelled, walk, layerG, relayG,
                   resChan, tmpDir, panicked, late, ut, pure>>

\* A loop that ends as soon as the channel holds nothing.
ConsumeEndEarly(t) ==
    /\ task[t].pc = "consume"
    /\ Secrets(t).buf = <<>>
    /\ task' = [task EXCEPT ![t].pc = "deferDelete"]
    /\ UNCHANGED <<opts, req, ScanMap, cancelled, walk, layerG, relayG, stream,
                   relay, resChan, written, tmpDir, panicked, late, ut, pure>>

\* The range loop ends when the channel is closed and drained.
ConsumeEnd(t) ==
    /\ task[t].pc = "consume"
    /\ Secrets(t).buf = <<>>
    /\ Secrets(t).closed
    /\ task' = [task EXCEPT ![t].pc = "deferDelete"]
    /\ UNCHANGED <<opts, req, ScanMap, cancelled, walk, layerG, relayG, stream,
                   relay, resChan, written, tmpDir, panicked, late, ut, pure>>

\* The deferred function: ScanMap.Delete, res <- err, close(res).
DeferDelete(t) ==
    /\ task[t].pc = "deferDelete"
    /\ ScanMap' = MapDelete(ScanMap, req[t].scan_id)
    /\ task' = [task EXCEPT ![t].pc = "deferSend"]
    /\ UNCHANGED <<opts, req, cancelled, walk, layerG, relayG, stream,
                   relay, resChan, written, tmpDir, panicked, late, ut, pure>>

DeferSend(t) ==
    /\ task[t].pc = "deferSend"
    /\ resChan' = [resChan EXCEPT ![t] = ChanSend(@, task[t].err)]
    /\ panicked' = [panicked EXCEPT ![t] = @ \/ resChan[t].closed]
    /\ task' = [task EXCEPT ![t].pc = "deferClose"]
    /\ UNCHANGED <<opts, req, ScanMap, cancelled, walk, layerG, relayG, stream,
                   relay, written, tmpDir, late, ut, pure>>

DeferClose(t) ==
    /\ task[t].pc = "deferClose"
    /\ resChan' = [resChan EXCEPT ![t] = ChanClose(@)]
    /\ panicked' = [panicked EXCEPT ![t] = @ \/ resChan[t].closed]
    /\ task' = [task EXCEPT ![t].pc = "done"]
    /\ UNCHANGED <<opts, req, ScanMap, cancelled, walk, layerG, relayG, stream,
                   relay, written, tmpDir, late, ut, pure>>

\* An out-of-band cancel request (or the inactivity timeout) cancels the
\* context of a scan that has one and has not ended.
Cancel(t) ==
    /\ task[t].ctx
    /\ task[t].pc # "done"
    /\ ~cancelled[t]
    /\ cancelled' = [cancelled EXCEPT ![t] = TRUE]
    /\ UNCHANGED <<opts, req, ScanMap, task, walk, layerG, relayG, stream,
                   relay, resChan, written, tmpDir, panicked, late, ut, pure>>

----------------------------------------------------------------------------
(* The WalkDir callback, common to ScanSecretsInDirStream and ScanSecretsInDir *)

\* The callback head that looks at the entry before it calls Checkpoint.
ClassifyBeforeCheckpoint(e, ck) ==
    IF e.kind = "err" THEN "error"
    ELSE IF e.kind = "dir" THEN (IF e.skip THEN "skipDir" ELSE "next")
    ELSE IF ck # "nil" THEN "cancelled"
    ELSE IF e.size > maxFileSize THEN "next"
    ELSE "scan"

\* core.IsSkippableDir(scanDirPath, baseDir): the directory's relative path
\* has a component of the configured skip list.
IsSkippableDir(e) == e.skip

\* The callback head that enters every directory.
ClassifyEntersSkipDir(e, ck) ==
    IF e.kind = "err" THEN "error"
    ELSE IF ck # "nil" THEN "cancelled"
    ELSE IF e.kind = "dir" THEN "next"
    ELSE IF e.size > maxFileSize THEN "next"
    ELSE "scan"

\* The callback head that passes a file whose size has reached the limit.
ClassifySizeAtLimitSkipped(e, ck) ==
    IF e.kind = "err" THEN "error"
    ELSE IF ck # "nil" THEN "cancelled"
    ELSE IF e.kind = "dir" THEN (IF e.skip THEN "skipDir" ELSE "next")
    ELSE IF e.size >= maxFileSize THEN "next"
    ELSE "scan"

\* What the callback decides before it opens the entry: the walk's own error
\* is returned, then Checkpoint's; a directory of the skip list is not
\* entered and any other is passed; a file above the size limit is passed;
\* any other file is scanned.
Classify(e, ck) ==
    IF e.kind = "err" THEN "error"
    ELSE IF ck # "nil" THEN "cancelled"
    ELSE IF e.kind = "dir" THEN (IF IsSkippableDir(e) THEN "skipDir" ELSE "next")
    ELSE IF e.size > maxFileSize THEN "next"
    ELSE "scan"

\* filepath.SkipDir: the walk goes on with the first entry after entry i that
\* does not lie below it.
RECURSIVE AfterDir(_, _)
AfterDir(tree, i) ==
    IF i + 1 <= Len(tree) /\ tree[i + 1].under THEN AfterDir(tree, i + 1) ELSE i + 1

\* scanFile: readFile's error is returned before the matcher is called.
scanFile(e, numSecrets, max) ==
    IF e.rd
       THEN [secrets |-> MatchPatternSignatures(e.c, numSecrets, max), err |-> "nil"]
       ELSE [secrets |-> 0, err |-> "readError"]

\* The cap check that lets the count reach max_secrets and go on.
CapReachedAbove(numSecrets, max) == numSecrets > max

\* if numSecrets >= *session.Options.MaxSecrets { return maxSecretsExceeded }
CapReached(numSecrets, max) == numSecrets >= max

----------------------------------------------------------------------------
(* scan.ScanSecretsInDirStream: the walker goroutine of a path scan *)

\* The callback that returns scanFile's error to WalkDir.
StreamCallbackReturnsReadError(w, tree, ck, max) ==
    LET e == tree[w.i]
        d == Classify(e, ck)
        r == scanFile(e, w.numSecrets, max)
    IN CASE d = "scan" /\ r.err = "nil" ->
              [w EXCEPT !.pc = "sendContent",
                        !.pending = FindingsOf(0, w.i, "contents", r.secrets),
                        !.numSecrets = @ + r.secrets]
         [] d = "scan" /\ r.err # "nil" -> [w EXCEPT !.pc = "exit", !.walkErr = r.err]
         [] d = "next" -> [w EXCEPT !.i = @ + 1]
         [] d = "skipDir" -> [w EXCEPT !.i = AfterDir(tree, w.i)]
         [] OTHER -> [w EXCEPT !.pc = "exit", !.walkErr = d]

\* The callback on entry w.i up to scanFile's return: scanFile's error is
\* logged, and its findings are sent when it returned none.
StreamCallback(w, tree, ck, max) ==
    LET e == tree[w.i]
        d == Classify(e, ck)
        r == scanFile(e, w.numSecrets, max)
    IN CASE d = "scan" ->
              [w EXCEPT !.pc = "sendContent",
                        !.pending = IF r.err # "nil" THEN <<>>
                                    ELSE FindingsOf(0, w.i, "contents", r.secrets),
                        !.numSecrets = @ + r.secrets,
                        !.fsOps = @ \o ChmodFile(0, w.i) \o <<FsOp("read", w.i)>>]
         [] d = "next" -> [w EXCEPT !.i = @ + 1]
         [] d = "skipDir" -> [w EXCEPT !.i = AfterDir(tree, w.i)]
         [] OTHER -> [w EXCEPT !.pc = "exit", !.walkErr = d]

StreamVisit(t) ==
    /\ req[t].kind = "path"
    /\ walk[t].pc = "visit"
    /\ LET w == walk[t]
           tree == req[t].tree
       IN IF w.i > Len(tree)
             THEN walk' = [walk EXCEPT ![t].pc = "exit"]
             ELSE walk' = [walk EXCEPT ![t] =
                              StreamCallback(w, tree, Checkpoint(cancelled[t]),
                                             opts.max_secrets)]
    /\ UNCHANGED <<opts, req, ScanMap, task, cancelled, layerG, relayG, stream,
                   relay, resChan, written, tmpDir, panicked, late, ut, pure>>

\* res <- secrets[i]
StreamSend(t) ==
    /\ req[t].kind = "path"
    /\ walk[t].pc \in {"sendContent", "sendSimple"}
    /\ walk[t].pending # <<>>
    /\ CanSend(stream[t])
    /\ stream' = [stream EXCEPT ![t] = ChanSend(@, Head(walk[t].pending))]
    /\ panicked' = [panicked EXCEPT ![t] = @ \/ stream[t].closed]
    /\ walk' = [walk EXCEPT ![t].pending = Tail(@)]
    /\ late' = [late EXCEPT ![t] = Later(t, Head(walk[t].pending))]
    /\ UNCHANGED <<opts, req, ScanMap, task, cancelled, layerG, relayG,
                   relay, resChan, written, tmpDir, ut, pure>>

\* After the content findings: signature.MatchSimpleSignatures.
StreamSimple(t) ==
    /\ req[t].kind = "path"
    /\ walk[t].pc = "sendContent"
    /\ walk[t].pending = <<>>
    /\ LET w == walk[t]
           m == MatchSimpleSignatures(req[t].tree[w.i].s, w.numSecrets, opts.max_secrets)
       IN walk' = [walk EXCEPT ![t].pc = "sendSimple",
                      ![t].pending = FindingsOf(0, w.i, "meta", m),
                      ![t].numSecrets = @ + m]
    /\ UNCHANGED <<opts, req, ScanMap, task, cancelled, layerG, relayG, stream,
                   relay, resChan, written, tmpDir, panicked, late, ut, pure>>

\* After the file's findings were sent: the cap check that ends the callback.
StreamCap(t) ==
    /\ req[t].kind = "path"
    /\ walk[t].pc = "sendSimple"
    /\ walk[t].pending = <<>>
    /\ IF CapReached(walk[t].numSecrets, opts.max_secrets)
          THEN walk' = [walk EXCEPT ![t].pc = "exit",
                           ![t].walkErr = "maxSecretsExceeded"]
          ELSE walk' = [walk EXCEPT ![t].pc = "visit", ![t].i = @ + 1]
    /\ UNCHANGED <<opts, req, ScanMap, task, cancelled, layerG, relayG, stream,
                   relay, resChan, written, tmpDir, panicked, late, ut, pure>>

\* The goroutine's exit with the deferred close(res) left out.
StreamExitNoClose(t) ==
    /\ req[t].kind = "path"
    /\ walk[t].pc = "exit"
    /\ walk' = [walk EXCEPT ![t].pc = "done"]
    /\ UNCHANGED <<opts, req, ScanMap, task, cancelled, layerG, relayG, stream,
                   relay, resChan, written, tmpDir, panicked, late, ut, pure>>

\* defer close(res): runs when WalkDir has returned, whatever it returned.
StreamExit(t) ==
    /\ req[t].kind = "path"
    /\ walk[t].pc = "exit"
    /\ stream' = [stream EXCEPT ![t] = ChanClose(@)]
    /\ panicked' = [panicked EXCEPT ![t] = @ \/ stream[t].closed]
    /\ walk' = [walk EXCEPT ![t].pc = "done"]
    /\ UNCHANGED <<opts, req, ScanMap, task, cancelled, layerG, relayG,
                   relay, resChan, written, tmpDir, late, ut, pure>>

----------------------------------------------------------------------------
(* scan.ScanSecretsInDir: the batch walk *)

\* One call of the callback on entry e of layer l: the content findings, then
\* the path/name findings are appended, then the cap is checked.
BatchCallback(w, tree, l, ck, max) ==
    LET e == tree[w.i]
        d == Classify(e, ck)
        r == scanFile(e, w.numSecrets, max)
        n == r.secrets
        m == MatchSimpleSignatures(e.s, w.numSecrets + n, max)
        scanned == [w EXCEPT !.numSecrets = @ + n + m,
                       !.found = @ \o FindingsOf(l, w.i, "contents", n)
                                   \o FindingsOf(l, w.i, "meta", m),
                       !.fsOps = @ \o ChmodFile(l, w.i) \o <<FsOp("read", w.i)>>]
    IN CASE d = "scan" ->
              IF CapReached(scanned.numSecrets, max)
                 THEN [scanned EXCEPT !.pc = "exit", !.walkErr = "maxSecretsExceeded"]
                 ELSE [scanned EXCEPT !.i = @ + 1]
         [] d = "next" -> [w EXCEPT !.i = @ + 1]
         [] d = "skipDir" -> [w EXCEPT !.i = AfterDir(tree, w.i)]
         [] OTHER -> [w EXCEPT !.pc = "exit", !.walkErr = d]

\* WalkDir: the callback on every entry until it returns an error.
RECURSIVE BatchWalk(_, _, _, _, _)
BatchWalk(w, tree, l, ck, max) ==
    IF w.pc = "exit" \/ w.i > Len(tree)
       THEN [w EXCEPT !.pc = "exit"]
       ELSE BatchWalk(BatchCallback(w, tree, l, ck, max), tree, l, ck, max)

\* What ScanSecretsInDir returns: the findings collected, and a nil error
\* whatever the walk returned.
ScanSecretsInDir(l, tree, ck, max) ==
    BatchWalk(StartWalk(l), tree, l, ck, max).found

----------------------------------------------------------------------------
(* extractDetailsFromManifest *)

\* A string is a sequence of tokens; "/layer.tar" is "/layer" then ".tar".
HasSuffix(str, suffix) ==
    /\ Len(str) >= Len(suffix)
    /\ SubSeq(str, Len(str) - Len(suffix) + 1, Len(str)) = suffix

\* strings.TrimSuffix: the suffix is removed once, if the string ends in it.
TrimSuffix(str, suffix) ==
    IF HasSuffix(str, suffix) THEN SubSeq(str, 1, Len(str) - Len(suffix)) ELSE str

LayerTarSuffix == <<"/layer", ".tar">>

TarSuffix == <<".tar">>

\* Only the "/layer.tar" suffix is removed.
TrimLayerIdLayerTarOnly(layer) == TrimSuffix(layer, LayerTarSuffix)

\* trimmedLayerId of one Layers entry.
TrimLayerId(layer) == TrimSuffix(TrimSuffix(layer, LayerTarSuffix), TarSuffix)

EmptyManifestItem == [Layers |-> <<>>, LayerIds |-> <<>>]

\* mf: whether manifest.json can be opened and decoded, the length of its
\* array and the Layers of the array's first entry.
extractDetailsFromManifest(mf) ==
    IF ~mf.opens \/ ~mf.decodes
       THEN [item |-> EmptyManifestItem, err |-> "error"]
       ELSE IF mf.len # 1
               THEN [item |-> EmptyManifestItem, err |-> "nil"]
               ELSE [item |-> [Layers |-> mf.Layers,
                               LayerIds |-> [i \in DOMAIN mf.Layers |->
                                                TrimLayerId(mf.Layers[i])]],
                     err |-> "nil"]

\* Layers entries: a name followed by up to MaxSuffixes suffix tokens.
LayerNames ==
    {<<"x">> \o tail : tail \in SeqsUpTo({"/layer", ".tar"}, MaxSuffixes)}

Manifests ==
    [opens : {TRUE}, decodes : {TRUE}, len : 0..MaxManifestLen,
     Layers : SeqsUpTo(LayerNames, MaxLayers)]
    \cup [opens : BOOLEAN, decodes : BOOLEAN, len : {1}, Layers : {<<>>}]

NoCall == [fn |-> "none", pc |-> "done", in |-> <<>>, out |-> <<>>]

ManifestCall ==
    /\ pure.fn = "extractDetailsFromManifest"
    /\ pure.pc = "call"
    /\ pure' = [pure EXCEPT !.pc = "done", !.out = extractDetailsFromManifest(pure.in)]
    /\ UNCHANGED <<opts, req, ScanMap, task, cancelled, walk, layerG, relayG, stream,
                   relay, resChan, written, tmpDir, panicked, late, ut>>

----------------------------------------------------------------------------
(* ImageScan.extractImage, processImageLayers, scan; ExtractAndScanImage *)

\* What untar returns when its loop returns err: the deferred function
\* assigns tarFile.Close()'s result to the named result.
UntarReturn(err, closeErr) == closeErr

\* extractTarFile on a layer's archive: untar's error, which is os.Open's
\* when the archive cannot be opened.
extractTarFile(layer) ==
    IF layer.status = "openFail" THEN "error"
    ELSE UntarReturn("nil", IF layer.status = "closeFail" THEN "error" ELSE "nil")

\* manifest.json of the image: it cannot be opened ("manifestErr"), or its
\* array holds two entries ("manifestLen"), or one.
ManifestOf(image) ==
    [opens |-> image.extract # "manifestErr", decodes |-> TRUE,
     len |-> IF image.extract = "manifestLen" THEN 2 ELSE 1,
     Layers |-> [i \in DOMAIN image.layers |-> <<"x", "/layer", ".tar">>]]

\* extractImage: saveImageData, the outer untar and the manifest may fail.
extractImage(image) ==
    IF image.extract \in {"saveFail", "untarFail"}
       THEN "error"
       ELSE extractDetailsFromManifest(ManifestOf(image)).err

\* The layers the loops go through: those of imageScan.imageManifest.
ManifestLayers(image) ==
    LET item == extractDetailsFromManifest(ManifestOf(image)).item
    IN SubSeq(image.layers, 1, Len(item.Layers))

\* The layer loop taken from the last manifest entry to the first.
LayerIndexReversed(n, i) == n + 1 - i

\* The i-th iteration of the layer loop handles the i-th manifest entry.
LayerIndex(n, i) == i

\* The loop with the return after a failed extractTarFile put back.
RECURSIVE processImageLayersFromAbort(_, _, _, _, _)
processImageLayersFromAbort(ls, i, acc, num, max) ==
    IF i > Len(ls)
       THEN [secrets |-> acc, err |-> "nil"]
       ELSE LET k == LayerIndex(Len(ls), i)
                secrets == ScanSecretsInDir(k, ls[k].tree, "nil", max)
            IN IF ls[k].status = "mkdirFail" \/ extractTarFile(ls[k]) # "nil"
                  THEN [secrets |-> acc, err |-> "error"]
                  ELSE IF num + Len(secrets) >= max
                          THEN [secrets |-> acc \o secrets, err |-> "nil"]
                          ELSE processImageLayersFromAbort(ls, i + 1, acc \o secrets,
                                                           num + Len(secrets), max)

\* processImageLayers from iteration i on, acc and num being what earlier
\* layers gave.  A target directory that cannot be made ends the scan with
\* the error; extractTarFile's error is only logged and the layer is scanned.
RECURSIVE processImageLayersFrom(_, _, _, _, _)
processImageLayersFrom(ls, i, acc, num, max) ==
    IF i > Len(ls)
       THEN [secrets |-> acc, err |-> "nil"]
       ELSE LET k == LayerIndex(Len(ls), i)
                secrets == ScanSecretsInDir(k, ls[k].tree, "nil", max)
            IN IF ls[k].status = "mkdirFail"
                  THEN [secrets |-> acc, err |-> "error"]
                  ELSE IF num + Len(secrets) >= max
                          THEN [secrets |-> acc \o secrets, err |-> "nil"]
                          ELSE processImageLayersFrom(ls, i + 1, acc \o secrets,
                                                      num + Len(secrets), max)

processImageLayers(image, max) ==
    processImageLayersFrom(ManifestLayers(image), 1, <<>>, 0, max)

\* core.GetTmpDir
BatchGetTmpDir(t) ==
    /\ task[t].pc = "bGetTmp"
    /\ IF req[t].image.extract = "tmpFail"
          THEN /\ task' = [task EXCEPT ![t].pc = "done", ![t].err = "error"]
               /\ UNCHANGED tmpDir
          ELSE /\ task' = [task EXCEPT ![t].pc = "bExtract"]
               /\ tmpDir' = [tmpDir EXCEPT ![t] = "exists"]
    /\ UNCHANGED <<opts, req, ScanMap, cancelled, walk, layerG, relayG, stream,
                   relay, resChan, written, panicked, late, ut, pure>>

\* err = imageScan.extractImage(true); if err != nil { return nil, err }
BatchExtract(t) ==
    /\ task[t].pc = "bExtract"
    /\ IF extractImage(req[t].image) # "nil"
          THEN task' = [task EXCEPT ![t].pc = "done", ![t].err = "error"]
          ELSE task' = [task EXCEPT ![t].pc = "bScan"]
    /\ UNCHANGED <<opts, req, ScanMap, cancelled, walk, layerG, relayG, stream,
                   relay, resChan, written, tmpDir, panicked, late, ut, pure>>

\* imageScan.scan(nil): processImageLayers, with DeleteTmpDir deferred; the
\* findings are returned only with a nil error.
BatchScan(t) ==
    /\ task[t].pc = "bScan"
    /\ LET r == processImageLayers(req[t].image, opts.max_secrets)
       IN task' = [task EXCEPT ![t].pc = "done", ![t].err = r.err,
                      ![t].ret = IF r.err = "nil" THEN r.secrets ELSE <<>>]
    /\ tmpDir' = [tmpDir EXCEPT ![t] = "deleted"]
    /\ UNCHANGED <<opts, req, ScanMap, cancelled, walk, layerG, relayG, stream,
                   relay, resChan, written, panicked, late, ut, pure>>

----------------------------------------------------------------------------
(* ExtractAndScanImageStream, called by DispatchScan for an image request *)

ImgGetTmpDir(t) ==
    /\ task[t].pc = "branch"
    /\ req[t].kind = "image"
    /\ IF req[t].image.extract = "tmpFail"
          THEN /\ task' = [task EXCEPT ![t].pc = "deferDelete", ![t].err = "error"]
               /\ UNCHANGED tmpDir
          ELSE /\ task' = [task EXCEPT ![t].pc = "extract"]
               /\ tmpDir' = [tmpDir EXCEPT ![t] = "exists"]
    /\ UNCHANGED <<opts, req, ScanMap, cancelled, walk, layerG, relayG, stream,
                   relay, resChan, written, panicked, late, ut, pure>>

\* if err != nil { core.DeleteTmpDir(tempDir); return nil, err }
ImgExtract(t) ==
    /\ task[t].pc = "extract"
    /\ IF extractImage(req[t].image) # "nil"
          THEN /\ task' = [task EXCEPT ![t].pc = "deferDelete", ![t].err = "error"]
               /\ tmpDir' = [tmpDir EXCEPT ![t] = "deleted"]
          ELSE /\ task' = [task EXCEPT ![t].pc = "startStream"]
               /\ UNCHANGED tmpDir
    /\ UNCHANGED <<opts, req, ScanMap, cancelled, walk, layerG, relayG, stream,
                   relay, resChan, written, panicked, late, ut, pure>>

\* scanStream starts the layer loop goroutine on a new channel; then the
\* relay goroutine is started on a second new channel, which is returned.
ImgStartStream(t) ==
    /\ task[t].pc = "startStream"
    /\ stream' = [stream EXCEPT ![t] = NewChan]
    /\ relay' = [relay EXCEPT ![t] = NewChan]
    /\ layerG' = [layerG EXCEPT ![t] = [IdleLayerG EXCEPT !.pc = "loop"]]
    /\ relayG' = [relayG EXCEPT ![t] = [IdleRelayG EXCEPT !.pc = "recv"]]
    /\ task' = [task EXCEPT ![t].pc = "consume"]
    /\ UNCHANGED <<opts, req, ScanMap, cancelled, walk, resChan, written,
                   tmpDir, panicked, late, ut, pure>>

----------------------------------------------------------------------------
(* processImageLayersStream: the layer loop goroutine *)

\* The head of one iteration: make the target directory, extract the
\* archive (either failure: continue), then call ScanSecretsInDir.
LayerLoop(t) ==
    /\ layerG[t].pc = "loop"
    /\ LET ls == ManifestLayers(req[t].image)
           g == layerG[t]
           k == LayerIndex(Len(ls), g.i)
       IN IF g.i > Len(ls)
             THEN /\ layerG' = [layerG EXCEPT ![t].pc = "exit"]
                  /\ UNCHANGED walk
             ELSE CASE ls[k].status = "mkdirFail" ->
                         /\ layerG' = [layerG EXCEPT ![t].i = @ + 1]
                         /\ UNCHANGED walk
                    [] extractTarFile(ls[k]) # "nil" ->
                         /\ layerG' = [layerG EXCEPT ![t].i = @ + 1,
                                          ![t].extracted = @ \cup {k}]
                         /\ UNCHANGED walk
                    [] OTHER ->
                         /\ layerG' = [layerG EXCEPT ![t].pc = "walking",
                                          ![t].extracted = @ \cup {k}]
                         /\ walk' = [walk EXCEPT ![t] = StartWalk(k)]
    /\ UNCHANGED <<opts, req, ScanMap, task, cancelled, relayG, stream,
                   relay, resChan, written, tmpDir, panicked, late, ut, pure>>

\* One entry of the layer's walk (ScanSecretsInDir's callback).
BatchVisit(t) ==
    /\ layerG[t].pc = "walking"
    /\ walk[t].pc = "visit"
    /\ LET ls == ManifestLayers(req[t].image)
           k == LayerIndex(Len(ls), layerG[t].i)
           w == walk[t]
       IN IF w.i > Len(ls[k].tree)
             THEN walk' = [walk EXCEPT ![t].pc = "exit"]
             ELSE walk' = [walk EXCEPT ![t] =
                      BatchCallback(w, ls[k].tree, k,
                                    Checkpoint(cancelled[t]), opts.max_secrets)]
    /\ UNCHANGED <<opts, req, ScanMap, task, cancelled, layerG, relayG, stream,
                   relay, resChan, written, tmpDir, panicked, late, ut, pure>>

\* ScanSecretsInDir has returned (secrets, nil):
\* imageScan.numSecrets += uint(len(secrets)), then the sends begin.
LayerCollect(t) ==
    /\ layerG[t].pc = "walking"
    /\ walk[t].pc = "exit"
    /\ layerG' = [layerG EXCEPT ![t].pc = "send",
                     ![t].numSecrets = @ + Len(walk[t].found),
                     ![t].pending = walk[t].found]
    /\ walk' = [walk EXCEPT ![t].pc = "done"]
    /\ UNCHANGED <<opts, req, ScanMap, task, cancelled, relayG, stream,
                   relay, resChan, written, tmpDir, panicked, late, ut, pure>>

\* res <- secrets[i]
LayerSend(t) ==
    /\ layerG[t].pc = "send"
    /\ layerG[t].pending # <<>>
    /\ CanSend(stream[t])
    /\ stream' = [stream EXCEPT ![t] = ChanSend(@, Head(layerG[t].pending))]
    /\ panicked' = [panicked EXCEPT ![t] = @ \/ stream[t].closed]
    /\ layerG' = [layerG EXCEPT ![t].pending = Tail(@)]
    /\ late' = [late EXCEPT ![t] = Later(t, Head(layerG[t].pending))]
    /\ UNCHANGED <<opts, req, ScanMap, task, cancelled, walk, relayG,
                   relay, resChan, written, tmpDir, ut, pure>>

\* err is nil here; the cap check breaks the loop or the next layer follows.
LayerCap(t) ==
    /\ layerG[t].pc = "send"
    /\ layerG[t].pending = <<>>
    /\ IF CapReached(layerG[t].numSecrets, opts.max_secrets)
          THEN layerG' = [layerG EXCEPT ![t].pc = "exit"]
          ELSE layerG' = [layerG EXCEPT ![t].pc = "loop", ![t].i = @ + 1]
    /\ UNCHANGED <<opts, req, ScanMap, task, cancelled, walk, relayG, stream,
                   relay, resChan, written, tmpDir, panicked, late, ut, pure>>

\* defer close(res)
LayerExit(t) ==
    /\ layerG[t].pc = "exit"
    /\ stream' = [stream EXCEPT ![t] = ChanClose(@)]
    /\ panicked' = [panicked EXCEPT ![t] = @ \/ stream[t].closed]
    /\ layerG' = [layerG EXCEPT ![t].pc = "done"]
    /\ UNCHANGED <<opts, req, ScanMap, task, cancelled, walk, relayG,
                   relay, resChan, written, tmpDir, late, ut, pure>>

----------------------------------------------------------------------------
(* ExtractAndScanImageStream: the relay goroutine *)

\* for i := range stream: one finding is received.
RelayRecv(t) ==
    /\ relayG[t].pc = "recv"
    /\ stream[t].buf # <<>>
    /\ relayG' = [relayG EXCEPT ![t].pc = "send", ![t].cur = <<Head(stream[t].buf)>>]
    /\ stream' = [stream EXCEPT ![t].buf = Tail(@)]
    /\ UNCHANGED <<opts, req, ScanMap, task, cancelled, walk, layerG,
                   relay, resChan, written, tmpDir, panicked, late, ut, pure>>

\* res <- i
RelaySend(t) ==
    /\ relayG[t].pc = "send"
    /\ CanSend(relay[t])
    /\ relay' = [relay EXCEPT ![t] = ChanSend(@, relayG[t].cur[1])]
    /\ panicked' = [panicked EXCEPT ![t] = @ \/ relay[t].closed]
    /\ relayG' = [relayG EXCEPT ![t].pc = "recv", ![t].cur = <<>>]
    /\ UNCHANGED <<opts, req, ScanMap, task, cancelled, walk, layerG, stream,
                   resChan, written, tmpDir, late, ut, pure>>

\* The relay goroutine's exit with the deferred close(res) left out.
RelayCloseNoClose(t) ==
    /\ relayG[t].pc = "recv"
    /\ stream[t].buf = <<>>
    /\ stream[t].closed
    /\ relayG' = [relayG EXCEPT ![t].pc = "delete"]
    /\ UNCHANGED <<opts, req, ScanMap, task, cancelled, walk, layerG, stream,
                   relay, resChan, written, tmpDir, panicked, late, ut, pure>>

\* The range ends when stream is closed and drained; the deferred calls run
\* last deferred first: close(res), then core.DeleteTmpDir(tempDir).
RelayClose(t) ==
    /\ relayG[t].pc = "recv"
    /\ stream[t].buf = <<>>
    /\ stream[t].closed
    /\ relay' = [relay EXCEPT ![t] = ChanClose(@)]
    /\ panicked' = [panicked EXCEPT ![t] = @ \/ relay[t].closed]
    /\ relayG' = [relayG EXCEPT ![t].pc = "delete"]
    /\ UNCHANGED <<opts, req, ScanMap, task, cancelled, walk, layerG, stream,
                   resChan, written, tmpDir, late, ut, pure>>

RelayDelete(t) ==
    /\ relayG[t].pc = "delete"
    /\ tmpDir' = [tmpDir EXCEPT ![t] = "deleted"]
    /\ relayG' = [relayG EXCEPT ![t].pc = "done"]
    /\ UNCHANGED <<opts, req, ScanMap, task, cancelled, walk, layerG, stream,
                   relay, resChan, written, panicked, late, ut, pure>>

----------------------------------------------------------------------------
(* untar.  A path is the sequence of its components; the paths of the file *)
(* system are rooted.  A tar entry's name is [abs, parts].                 *)

\* filepath.Join(absPath, fileName) cleans the result: "." is dropped and
\* ".." removes the component before it (at the root it is dropped).
RECURSIVE JoinClean(_, _)
JoinClean(base, parts) ==
    IF parts = <<>> THEN base
    ELSE IF Head(parts) = "." THEN JoinClean(base, Tail(parts))
    ELSE IF Head(parts) = ".."
            THEN JoinClean(IF base = <<>> THEN <<>> ELSE SubSeq(base, 1, Len(base) - 1),
                           Tail(parts))
    ELSE JoinClean(Append(base, Head(parts)), Tail(parts))

\* if filepath.IsAbs(fileName) { fileName, err = filepath.Rel("/", fileName) }
\* A relative name is kept as it is written.
RelName(name) == IF name.abs THEN JoinClean(<<>>, name.parts) ELSE name.parts

IsPrefix(a, b) == Len(a) <= Len(b) /\ SubSeq(b, 1, Len(a)) = a

Prefixes(path) == {SubSeq(path, 1, k) : k \in 0..Len(path)}

\* os.MkdirAll: fails when a file stands where a directory is needed;
\* otherwise the path and its missing ancestors become directories.
MkdirAllFails(fs, path) == Prefixes(path) \cap fs.files # {}

MkdirAll(fs, path) ==
    IF MkdirAllFails(fs, path) THEN fs ELSE [fs EXCEPT !.dirs = @ \cup Prefixes(path)]

\* os.OpenFile(O_RDWR|O_CREATE|O_TRUNC): needs the parent directory, and
\* fails on a directory.
OpenFileFails(fs, path) ==
    \/ path = <<>>
    \/ path \in fs.dirs
    \/ SubSeq(path, 1, Len(path) - 1) \notin fs.dirs

\* The directory untar extracts into, and what exists before it runs.
absPath == <<"w", "t">>

InitialFs == [dirs |-> Prefixes(absPath), files |-> {}]

\* The state after entry e of the archive: the file system, and the error
\* the loop returns with ("nil": the loop goes on).
UntarEntry(fs, e) ==
    LET fileName == RelName(e.name)
        absFileName == JoinClean(absPath, fileName)
        absDirPath == JoinClean(absPath, SubSeq(fileName, 1, Len(fileName) - 1))
        fs1 == IF Len(fileName) > 1 THEN MkdirAll(fs, absDirPath) ELSE fs
    IN IF e.isDir
          THEN IF MkdirAllFails(fs1, absFileName)
                  THEN [fs |-> fs1, err |-> "error"]
                  ELSE [fs |-> MkdirAll(fs1, absFileName), err |-> "nil"]
          ELSE IF OpenFileFails(fs1, absFileName)
                  THEN [fs |-> fs1, err |-> "error"]
                  ELSE [fs |-> [fs1 EXCEPT !.files = @ \cup {absFileName}],
                        err |-> IF e.short THEN "sizeMismatch" ELSE "nil"]

Components == {"a", ".."}

Names == [abs : BOOLEAN, parts : UNION {[1..k -> Components] : k \in 1..MaxNameLen}]

\* An entry is a directory or a regular file.  short: the bytes copied for
\* the entry differ from the size in its header, drawn for the files whose
\* name is one relative component.
TarEntries ==
    [name : Names, isDir : BOOLEAN, short : {FALSE}]
    \cup {[name |-> [abs |-> FALSE, parts |-> <<c>>], isDir |-> FALSE, short |-> TRUE]
             : c \in Components}

\* The archives of up to n entries.  opens: os.Open succeeds; closeErr: what
\* tarFile.Close() returns.  An archive that cannot be opened is never read.
Archives(n) ==
    [entries : SeqsUpTo(TarEntries, n), opens : {TRUE}, closeErr : {"nil", "error"}]
    \cup {[entries |-> <<>>, opens |-> FALSE, closeErr |-> "nil"]}

NoUntar ==
    [tar |-> [entries |-> <<>>, opens |-> TRUE, closeErr |-> "nil"],
     pc |-> "done", i |-> 1, fs |-> InitialFs, loopErr |-> "nil", ret |-> "nil"]

\* tarFile, err := os.Open(tarName); if err != nil { return err }
UntarOpen ==
    /\ ut.pc = "open"
    /\ IF ut.tar.opens
          THEN ut' = [ut EXCEPT !.pc = "loop"]
          ELSE ut' = [ut EXCEPT !.pc = "done", !.loopErr = "error", !.ret = "error"]
    /\ UNCHANGED <<opts, req, ScanMap, task, cancelled, walk, layerG, relayG, stream,
                   relay, resChan, written, tmpDir, panicked, late, pure>>

\* One iteration of the loop: io.EOF ends it, otherwise the entry is unpacked
\* and an error returns from the function.
UntarStep ==
    /\ ut.pc = "loop"
    /\ IF ut.i > Len(ut.tar.entries)
          THEN ut' = [ut EXCEPT !.pc = "done", !.ret = UntarReturn("nil", ut.tar.closeErr)]
          ELSE LET r == UntarEntry(ut.fs, ut.tar.entries[ut.i])
               IN IF r.err = "nil"
                     THEN ut' = [ut EXCEPT !.fs = r.fs, !.i = @ + 1]
                     ELSE ut' = [ut EXCEPT !.fs = r.fs, !.pc = "done",
                                    !.loopErr = r.err,
                                    !.ret = UntarReturn(r.err, ut.tar.closeErr)]
    /\ UNCHANGED <<opts, req, ScanMap, task, cancelled, walk, layerG, relayG, stream,
                   relay, resChan, written, tmpDir, panicked, late, pure>>

----------------------------------------------------------------------------
(* writeSingleScanData, writeMultiScanData: the full_filename they write *)

HasPrefix(str, prefix) ==
    /\ Len(str) >= Len(prefix)
    /\ SubSeq(str, 1, Len(prefix)) = prefix

\* The positions at which old occurs in str.
Occurrences(str, old) ==
    {i \in 1..(Len(str) - Len(old) + 1) : SubSeq(str, i, i + Len(old) - 1) = old}

\* strings.Replace(str, old, "", 1): the first occurrence of old is removed.
ReplaceFirst(str, old) ==
    IF Occurrences(str, old) = {} \/ old = <<>>
       THEN str
       ELSE LET i == CHOOSE k \in Occurrences(str, old) :
                        \A j \in Occurrences(str, old) : k <= j
            IN SubSeq(str, 1, i - 1) \o SubSeq(str, i + Len(old), Len(str))

\* if SecretScanDir == HostMountDir { FullFilename = strings.Replace(...) }
RewriteFullFilename(name, SecretScanDir, HostMountDir) ==
    IF SecretScanDir = HostMountDir THEN ReplaceFirst(name, SecretScanDir) ELSE name

\* The full_filename of each document writeMultiScanData writes.
writeMultiScanData(names, SecretScanDir, HostMountDir) ==
    [i \in DOMAIN names |-> RewriteFullFilename(names[i], SecretScanDir, HostMountDir)]

\* Directories and file names, as sequences of path components.
ScanDirs == {<<"/host">>, <<"/x">>}

FileNames == SeqsUpTo({"/host", "/x"}, MaxPathLen)

\* writeSingleScanData on a finding.
WriteSingleCall ==
    /\ pure.fn = "writeSingleScanData"
    /\ pure.pc = "call"
    /\ pure' = [pure EXCEPT !.pc = "done",
                    !.out = <<RewriteFullFilename(pure.in.FullFilenames[1],
                                                  pure.in.SecretScanDir,
                                                  pure.in.HostMountDir)>>]
    /\ UNCHANGED <<opts, req, ScanMap, task, cancelled, walk, layerG, relayG, stream,
                   relay, resChan, written, tmpDir, panicked, late, ut>>

\* writeMultiScanData on a slice of findings.
WriteMultiCall ==
    /\ pure.fn = "writeMultiScanData"
    /\ pure.pc = "call"
    /\ pure' = [pure EXCEPT !.pc = "done",
                    !.out = writeMultiScanData(pure.in.FullFilenames,
                                               pure.in.SecretScanDir,
                                               pure.in.HostMountDir)]
    /\ UNCHANGED <<opts, req, ScanMap, task, cancelled, walk, layerG, relayG, stream,
                   relay, resChan, written, tmpDir, panicked, late, ut>>

----------------------------------------------------------------------------
(* The rule-hit map of a walk *)

Rules == {"r1", "r2"}

\* matchedRuleSet := map[uint]uint{}
EmptyRuleSet == [r \in Rules |-> 0]

\* The matches of one rule a file may yield: one, or max-multi-match with
\* the multi-match option.
RuleCap(multi) == IF multi THEN DefaultMaxMultiMatch ELSE 1

\* signature.MatchPatternSignatures on contents that hold hits[r] matches of
\* rule r: matchedRuleSet[r] counts the matches emitted and is what the cap
\* is compared with.
MatchRules(hits, matchedRuleSet, cap) ==
    LET emitted == [r \in Rules |->
                       IF matchedRuleSet[r] >= cap THEN 0
                       ELSE Min(hits[r], cap - matchedRuleSet[r])]
    IN [emitted |-> emitted,
        matchedRuleSet |-> [r \in Rules |-> matchedRuleSet[r] + emitted[r]]]

\* The contents of a file, as the number of matches of each rule they hold.
RuleHits == [Rules -> 0..MaxHits]

\* The state of a walk before its first file: the map made before WalkDir
\* is called.
RuleWalkStart == [i |-> 1, matchedRuleSet |-> EmptyRuleSet, calls |-> <<>>]

\* One file of a walk: the callback hands scanFile the map of the walk, and
\* scanFile hands it to the content matcher.  calls records, for each file,
\* the map the matcher was given and the matches it emitted.
RuleWalkStep ==
    /\ pure.fn = "WalkDir"
    /\ pure.pc = "call"
    /\ IF pure.out.i > Len(pure.in.files)
          THEN pure' = [pure EXCEPT !.pc = "done"]
          ELSE LET r == MatchRules(pure.in.files[pure.out.i], pure.out.matchedRuleSet,
                                   RuleCap(pure.in.multi))
               IN pure' = [pure EXCEPT !.out =
                              [i |-> pure.out.i + 1,
                               matchedRuleSet |-> r.matchedRuleSet,
                               calls |-> Append(pure.out.calls,
                                                [seen |-> pure.out.matchedRuleSet,
                                                 emitted |-> r.emitted])]]
    /\ UNCHANGED <<opts, req, ScanMap, task, cancelled, walk, layerG, relayG, stream,
                   relay, resChan, written, tmpDir, panicked, late, ut>>

----------------------------------------------------------------------------
(* readFile: the contents handed to the content matcher *)

\* The bytes of a file: "S" is a byte a rule matches, "a" any other byte.
Bytes == {"a", "S", "\n"}

DiskFiles == SeqsUpTo(Bytes, MaxFileLen)

\* bufio.Scanner with ScanLines on data from byte i on: the lines, without
\* their newline; what follows the last newline is a line when it is not
\* empty.  cur holds the bytes of the line being read.
RECURSIVE ScanLines(_, _, _)
ScanLines(data, i, cur) ==
    IF i > Len(data) THEN (IF cur = <<>> THEN <<>> ELSE <<cur>>)
    ELSE IF data[i] = "\n" THEN <<cur>> \o ScanLines(data, i + 1, <<>>)
    ELSE ScanLines(data, i + 1, Append(cur, data[i]))

\* if len(line) == 0 { continue }; content += scanner.Text() + "\n"
RECURSIVE JoinLines(_)
JoinLines(lines) ==
    IF lines = <<>> THEN <<>>
    ELSE (IF Len(Head(lines)) = 0 THEN <<>> ELSE Head(lines) \o <<"\n">>)
             \o JoinLines(Tail(lines))

readFile(data) == JoinLines(ScanLines(data, 1, <<>>))

\* The start offsets the content matcher records: the offsets, from 0, of
\* the matches in the contents it is given.
MatchOffsets(contents) ==
    [k \in 1..Cardinality({i \in DOMAIN contents : contents[i] = "S"}) |->
        (CHOOSE i \in DOMAIN contents :
            /\ contents[i] = "S"
            /\ Cardinality({j \in 1..i : contents[j] = "S"}) = k) - 1]

\* scanFile on a file: readFile, then the matcher on what it returned.
ReadFileCall ==
    /\ pure.fn = "scanFile"
    /\ pure.pc = "call"
    /\ pure' = [pure EXCEPT !.pc = "done",
                    !.out = [contents |-> readFile(pure.in),
                             offsets |-> MatchOffsets(readFile(pure.in))]]
    /\ UNCHANGED <<opts, req, ScanMap, task, cancelled, walk, layerG, relayG, stream,
                   relay, resChan, written, tmpDir, panicked, late, ut>>

----------------------------------------------------------------------------
(* Specification *)

Init ==
    \E in \in Inputs :
        /\ opts = [max_secrets |-> in.max]
        /\ req = in.req
        /\ ScanMap = <<>>
        /\ task = [t \in DOMAIN in.req |->
                      [pc |-> StartPc(in.req[t].kind), err |-> "nil", ctx |-> FALSE,
                       ret |-> <<>>]]
        /\ cancelled = [t \in DOMAIN in.req |-> FALSE]
        /\ walk = [t \in DOMAIN in.req |-> IdleWalk]
        /\ layerG = [t \in DOMAIN in.req |-> IdleLayerG]
        /\ relayG = [t \in DOMAIN in.req |-> IdleRelayG]
        /\ stream = [t \in DOMAIN in.req |-> NewChan]
        /\ relay = [t \in DOMAIN in.req |-> NewChan]
        /\ resChan = [t \in DOMAIN in.req |-> NewChan]
        /\ written = [t \in DOMAIN in.req |-> <<>>]
        /\ tmpDir = [t \in DOMAIN in.req |-> "none"]
        /\ panicked = [t \in DOMAIN in.req |-> FALSE]
        /\ late = [t \in DOMAIN in.req |-> NoLate]
        /\ ut = NoUntar
        /\ pure = NoCall

Next ==
    \/ \E t \in Tasks : StartStatusReporter(t)
    \/ \E t \in Tasks : StoreScan(t)
    \/ \E t \in Tasks : DispatchPath(t)
    \/ \E t \in Tasks : DispatchInvalid(t)
    \/ \E t \in Tasks : ImgGetTmpDir(t)
    \/ \E t \in Tasks : ImgExtract(t)
    \/ \E t \in Tasks : ImgStartStream(t)
    \/ \E t \in Tasks : ConsumeOne(t)
    \/ \E t \in Tasks : ConsumeEnd(t)
    \/ \E t \in Tasks : DeferDelete(t)
    \/ \E t \in Tasks : DeferSend(t)
    \/ \E t \in Tasks : DeferClose(t)
    \/ \E t \in Tasks : Cancel(t)
    \/ \E t \in Tasks : StreamVisit(t)
    \/ \E t \in Tasks : StreamSend(t)
    \/ \E t \in Tasks : StreamSimple(t)
    \/ \E t \in Tasks : StreamCap(t)
    \/ \E t \in Tasks : StreamExit(t)
    \/ \E t \in Tasks : LayerLoop(t)
    \/ \E t \in Tasks : BatchVisit(t)
    \/ \E t \in Tasks : LayerCollect(t)
    \/ \E t \in Tasks : LayerSend(t)
    \/ \E t \in Tasks : LayerCap(t)
    \/ \E t \in Tasks : LayerExit(t)
    \/ \E t \in Tasks : RelayRecv(t)
    \/ \E t \in Tasks : RelaySend(t)
    \/ \E t \in Tasks : RelayClose(t)
    \/ \E t \in Tasks : RelayDelete(t)
    \/ \E t \in Tasks : BatchGetTmpDir(t)
    \/ \E t \in Tasks : BatchExtract(t)
    \/ \E t \in Tasks : BatchScan(t)

Spec == Init /\ [][Next]_vars

\* The steps of the scans DispatchScan starts: Next without the steps of
\* ExtractAndScanImage, which DispatchScan does not call.
NextStream ==
    \/ \E t \in Tasks : StartStatusReporter(t)
    \/ \E t \in Tasks : StoreScan(t)
    \/ \E t \in Tasks : DispatchPath(t)
    \/ \E t \in Tasks : DispatchInvalid(t)
    \/ \E t \in Tasks : ImgGetTmpDir(t)
    \/ \E t \in Tasks : ImgExtract(t)
    \/ \E t \in Tasks : ImgStartStream(t)
    \/ \E t \in Tasks : ConsumeOne(t)
    \/ \E t \in Tasks : ConsumeEnd(t)
    \/ \E t \in Tasks : DeferDelete(t)
    \/ \E t \in Tasks : DeferSend(t)
    \/ \E t \in Tasks : DeferClose(t)
    \/ \E t \in Tasks : Cancel(t)
    \/ \E t \in Tasks : StreamVisit(t)
    \/ \E t \in Tasks : StreamSend(t)
    \/ \E t \in Tasks : StreamSimple(t)
    \/ \E t \in Tasks : StreamCap(t)
    \/ \E t \in Tasks : StreamExit(t)
    \/ \E t \in Tasks : LayerLoop(t)
    \/ \E t \in Tasks : BatchVisit(t)
    \/ \E t \in Tasks : LayerCollect(t)
    \/ \E t \in Tasks : LayerSend(t)
    \/ \E t \in Tasks : LayerCap(t)
    \/ \E t \in Tasks : LayerExit(t)
    \/ \E t \in Tasks : RelayRecv(t)
    \/ \E t \in Tasks : RelaySend(t)
    \/ \E t \in Tasks : RelayClose(t)
    \/ \E t \in Tasks : RelayDelete(t)

\* The scans whose ends are looked for: walks that end normally, at an
\* error, at the cap, and with more findings than a channel buffers; every
\* image; a request naming nothing; two scans at once.
LiveTrees == {<<>>, <<BadEntry>>, <<File(MaxHits, 1)>>, BigTree} \cup PrefilterWalks

LiveInputs ==
    {in \in Inputs :
        /\ in.max \in {1, DefaultMaxSecrets}
        /\ \A t \in DOMAIN in.req :
              /\ in.req[t].kind # "imageBatch"
              /\ in.req[t].kind = "path" =>
                    in.req[t].tree \in LiveTrees \cup {SmallTree}}

InitLive == Init /\ [max |-> opts.max_secrets, req |-> req] \in LiveInputs

\* The Go scheduler runs every goroutine that can take a step: no behaviour
\* stops while a step of a scan is possible.
SpecLive == InitLive /\ [][NextStream]_vars /\ WF_vars(NextStream)

\* untar alone, on every archive of the bounded set.
InitUntar ==
    /\ opts = [max_secrets |-> DefaultMaxSecrets]
    /\ req = <<>>
    /\ ScanMap = <<>>
    /\ task = <<>>
    /\ cancelled = <<>>
    /\ walk = <<>>
    /\ layerG = <<>>
    /\ relayG = <<>>
    /\ stream = <<>>
    /\ relay = <<>>
    /\ resChan = <<>>
    /\ written = <<>>
    /\ tmpDir = <<>>
    /\ panicked = <<>>
    /\ late = <<>>
    /\ \E a \in Archives(MaxTarEntries) : ut = [NoUntar EXCEPT !.tar = a, !.pc = "open"]
    /\ pure = NoCall

NextUntar ==
    \/ UntarOpen
    \/ UntarStep

SpecUntar == InitUntar /\ [][NextUntar]_vars

\* The calls of one function on an input of its bounded set.
WriteCalls(n) ==
    {[fn |-> "writeSingleScanData", pc |-> "call", out |-> <<>>,
      in |-> [SecretScanDir |-> d, HostMountDir |-> <<"/host">>, FullFilenames |-> <<f>>]]
        : d \in ScanDirs, f \in FileNames}
    \cup {[fn |-> "writeMultiScanData", pc |-> "call", out |-> <<>>,
           in |-> [SecretScanDir |-> d, HostMountDir |-> <<"/host">>, FullFilenames |-> fs]]
             : d \in ScanDirs, fs \in SeqsUpTo(FileNames, n)}

\* The walks of up to n files under either setting of multi-match.
RuleWalks(n) ==
    {[fn |-> "WalkDir", pc |-> "call", out |-> RuleWalkStart,
      in |-> [files |-> fs, multi |-> m]] : fs \in SeqsUpTo(RuleHits, n), m \in BOOLEAN}

PureCalls ==
    [fn : {"extractDetailsFromManifest"}, pc : {"call"}, in : Manifests, out : {<<>>}]
    \cup WriteCalls(MaxMultiWrite)
    \cup RuleWalks(MaxFiles)
    \cup [fn : {"scanFile"}, pc : {"call"}, in : DiskFiles, out : {<<>>}]

InitPure ==
    /\ opts = [max_secrets |-> DefaultMaxSecrets]
    /\ req = <<>>
    /\ ScanMap = <<>>
    /\ task = <<>>
    /\ cancelled = <<>>
    /\ walk = <<>>
    /\ layerG = <<>>
    /\ relayG = <<>>
    /\ stream = <<>>
    /\ relay = <<>>
    /\ resChan = <<>>
    /\ written = <<>>
    /\ tmpDir = <<>>
    /\ panicked = <<>>
    /\ late = <<>>
    /\ ut = NoUntar
    /\ pure \in PureCalls

NextPure ==
    \/ ManifestCall
    \/ WriteSingleCall
    \/ WriteMultiCall
    \/ RuleWalkStep
    \/ ReadFileCall

SpecPure == InitPure /\ [][NextPure]_vars

----------------------------------------------------------------------------
(* Properties *)

\* Every goroutine of task t has ended.
AllDone(t) ==
    /\ task[t].pc = "done"
    /\ walk[t].pc \in {"idle", "done"}
    /\ layerG[t].pc \in {"idle", "done"}
    /\ relayG[t].pc \in {"idle", "done"}

\* The findings the scan's caller has received.
Delivered(t) == IF req[t].kind = "imageBatch" THEN task[t].ret ELSE written[t]

\* What the batch surface returns for the request of task t.
BatchResult(t) ==
    IF req[t].kind = "path"
       THEN ScanSecretsInDir(0, req[t].tree, "nil", opts.max_secrets)
       ELSE LET r == processImageLayers(req[t].image, opts.max_secrets)
            IN IF req[t].image.extract # "tmpFail" /\ extractImage(req[t].image) = "nil"
                     /\ r.err = "nil"
                  THEN r.secrets ELSE <<>>

\* A traversal of task t has started and has not ended.
Traversing(t) == walk[t].pc \notin {"idle", "done"}

NonDecreasingLayers(fs) ==
    \A i, j \in 1..Len(fs) : i < j => fs[i].layer <= fs[j].layer

\* C1: in every scan the number of findings delivered is at most max_secrets
\* (so none is delivered after the one that brings the count to the cap).
C1_DeliveredWithinCap ==
    \A t \in Tasks : Len(Delivered(t)) <= opts.max_secrets

\* C2: when an image scan has ended, by any path, the temp workspace it
\* obtained no longer exists.
C2_WorkspaceDeleted ==
    \A t \in Tasks :
        (req[t].kind \in {"image", "imageBatch"} /\ AllDone(t)) => tmpDir[t] # "exists"

\* C3: no two dispatched scans with the same scan_id traverse at the same time.
C3_OneLiveScanPerId ==
    \A t1, t2 \in Tasks :
        (t1 # t2 /\ req[t1].scan_id = req[t2].scan_id)
            => ~(Traversing(t1) /\ Traversing(t2))

\* C4: once a checkpoint of the scan's walk has reported cancellation, no
\* step sends a further finding on the driver's output stream.
C4_NoSendAfterCancelSeen ==
    [][\A t \in Tasks :
          walk[t].walkErr = "cancelled" => Len(Emitted(t)') = Len(Emitted(t))]_vars

\* C5: after cancel is signalled, at most one more finding is sent by the
\* scan's single walker.
C5_AtMostOneAfterCancel ==
    \A t \in Tasks : late[t].n <= 1

\* C6: the outcome handed to the status reporter by a scan whose walk was
\* cancelled differs from the outcome of a scan that completed normally.
C6_CancelledDistinguishable ==
    \A t1, t2 \in Tasks :
        (/\ AllDone(t1) /\ AllDone(t2)
         /\ req[t1].kind = "path" /\ req[t2].kind = "path"
         /\ walk[t1].walkErr = "cancelled"
         /\ walk[t2].walkErr = "nil")
            => resChan[t1].buf # resChan[t2].buf

\* C7: whatever untar creates lies inside the target directory.
C7_UntarStaysInside ==
    \A path \in (ut.fs.dirs \cup ut.fs.files) \ InitialFs.dirs : IsPrefix(absPath, path)

\* C8: an uncancelled stream scan delivers exactly the slice the batch
\* surface returns for the same contents and options.
C8_StreamEqualsBatch ==
    \A t \in Tasks :
        (req[t].kind \in {"path", "image"} /\ AllDone(t) /\ ~cancelled[t])
            => written[t] = BatchResult(t)

\* C9: no send on a closed channel and no second close happens; a channel is
\* closed exactly when its producer has ended, so after its last send; no
\* channel buffers more than secret_pipeline_size findings.
C9_ChannelsClosedOnce ==
    \A t \in Tasks :
        /\ ~panicked[t]
        /\ Len(stream[t].buf) <= secret_pipeline_size
        /\ Len(relay[t].buf) <= secret_pipeline_size
        /\ stream[t].closed <=>
              (IF req[t].kind = "path" THEN walk[t].pc = "done" ELSE layerG[t].pc = "done")
        /\ relay[t].closed <=> relayG[t].pc \in {"delete", "done"}
        /\ stream[t].closed => (walk[t].pending = <<>> \/ walk[t].walkErr # "nil")

\* The walker ended and closed its channel while the channel was full.
C9_Witness ==
    \E t \in Tasks : stream[t].closed /\ Len(stream[t].buf) = secret_pipeline_size

\* C10: everything an image scan has sent, through both channel stages, is
\* in manifest layer order.
C10_LayerOrder ==
    \A t \in Tasks : req[t].kind = "image" => NonDecreasingLayers(Emitted(t))

\* The consumer has written findings of two layers.
C10_Witness ==
    \E t \in Tasks :
        /\ req[t].kind = "image"
        /\ \E i, j \in 1..Len(written[t]) : written[t][i].layer < written[t][j].layer

\* C11 as stated: a Layers entry that ends in "/layer.tar" or ".tar" gives a
\* LayerId that ends in neither.
C11_LayerIdsStripped ==
    (pure.fn = "extractDetailsFromManifest" /\ pure.pc = "done" /\ pure.out.err = "nil")
        => \A i \in DOMAIN pure.out.item.Layers :
              LET layer == pure.out.item.Layers[i]
                  id == pure.out.item.LayerIds[i]
              IN (HasSuffix(layer, LayerTarSuffix) \/ HasSuffix(layer, TarSuffix))
                    => (~HasSuffix(id, LayerTarSuffix) /\ ~HasSuffix(id, TarSuffix))

\* C11 as amended: from a Layers entry that ends in "/layer.tar" or ".tar"
\* one trailing "/layer.tar" and then one trailing ".tar" are removed, so the
\* LayerId is shorter than the entry, and it still ends in ".tar" only when
\* the entry, without its trailing "/layer.tar", ends in ".tar.tar".
C11_OneSuffixEachStripped ==
    (pure.fn = "extractDetailsFromManifest" /\ pure.pc = "done" /\ pure.out.err = "nil")
        => /\ Len(pure.out.item.LayerIds) = Len(pure.out.item.Layers)
           /\ \A i \in DOMAIN pure.out.item.Layers :
                 LET layer == pure.out.item.Layers[i]
                     id == pure.out.item.LayerIds[i]
                 IN (HasSuffix(layer, LayerTarSuffix) \/ HasSuffix(layer, TarSuffix))
                       => /\ HasPrefix(layer, id)
                          /\ Len(id) < Len(layer)
                          /\ HasSuffix(id, TarSuffix)
                                => HasSuffix(TrimSuffix(layer, LayerTarSuffix),
                                             TarSuffix \o TarSuffix)

\* A manifest of two layers was parsed: one entry ends in "/layer.tar", the
\* other in ".tar", and both LayerIds are the bare name.
C11_Witness ==
    /\ pure.fn = "extractDetailsFromManifest"
    /\ pure.pc = "done"
    /\ pure.in.Layers = <<(<<"x">> \o LayerTarSuffix), (<<"x">> \o TarSuffix)>>
    /\ pure.out.item.LayerIds = <<(<<"x">>), (<<"x">>)>>

\* C12: with SecretScanDir = HostMountDir = P, no full_filename written by
\* writeSingleScanData or writeMultiScanData begins with P.
C12_NoHostMountPrefix ==
    (/\ pure.fn \in {"writeSingleScanData", "writeMultiScanData"}
     /\ pure.pc = "done"
     /\ pure.in.SecretScanDir = pure.in.HostMountDir)
        => \A i \in DOMAIN pure.out : ~HasPrefix(pure.out[i], pure.in.HostMountDir)

\* C13: an image scan whose manifest array does not hold exactly one entry
\* ends with an error.
C13_ManifestLenIsFatal ==
    \A t \in Tasks :
        (/\ req[t].kind \in {"image", "imageBatch"}
         /\ req[t].image.extract = "manifestLen"
         /\ AllDone(t))
            => task[t].err # "nil"

\* C14: when the bytes copied for an entry differ from the size in its
\* header, untar returns a non-nil error.
C14_SizeMismatchFails ==
    (ut.pc = "done" /\ ut.loopErr = "sizeMismatch") => ut.ret # "nil"

\* C15: a path request whose path is not an absolute path of an existing
\* directory ends with an error handed to the status reporter.
C15_BadPathRejected ==
    \A t \in Tasks :
        (req[t].kind = "path" /\ req[t].path # "absDir" /\ task[t].pc = "done")
            => task[t].err # "nil"

\* The target directory of every layer of the image can be made.
NoMkdirFail(image) ==
    \A i \in DOMAIN image.layers : image.layers[i].status # "mkdirFail"

Readable(tree) ==
    [i \in DOMAIN tree |->
        IF tree[i].kind = "file" /\ ~tree[i].rd
           THEN [tree[i] EXCEPT !.rd = TRUE, !.c = 0]
           ELSE tree[i]]

HasFindingOf(fs, i) == \E k \in DOMAIN fs : fs[k].file = i

\* C17: a file that cannot be read does not abort the scan: a path scan
\* that ended without cancel has delivered exactly the findings of the walk
\* in which that file is read and holds no content match, and so has the
\* batch walk; the findings of the entries before and after it are among them.
C17_ReadErrorSkipsFile ==
    \A t \in Tasks :
        req[t].kind = "path" =>
            /\ task[t].pc = StartPc("path")
                  => BatchResult(t) = ScanSecretsInDir(0, Readable(req[t].tree), "nil",
                                                       opts.max_secrets)
            /\ (AllDone(t) /\ ~cancelled[t])
                  => written[t] = ScanSecretsInDir(0, Readable(req[t].tree), "nil",
                                                   opts.max_secrets)

\* A path scan has ended that delivered a finding of the file before and a
\* finding of the file after one that could not be read.
C17_Witness ==
    \E t \in Tasks :
        /\ req[t].kind = "path"
        /\ AllDone(t)
        /\ \E i, j, k \in DOMAIN req[t].tree :
              /\ i < j /\ j < k
              /\ req[t].tree[j].kind = "file" /\ ~req[t].tree[j].rd
              /\ HasFindingOf(written[t], i)
              /\ HasFindingOf(written[t], k)

\* The walk of the scan of task t that finding f names.
WalkOf(t, f) ==
    IF req[t].kind = "path" THEN req[t].tree
    ELSE ManifestLayers(req[t].image)[f.layer].tree

\* The findings of task t: collected, waiting to be sent, delivered, and
\* what the batch surface returns for its request (which depends on the
\* request alone, and is looked at before the scan's first step).
FindingsAnywhere(t) ==
    walk[t].found \o walk[t].pending \o Delivered(t)
        \o (IF task[t].pc = StartPc(req[t].kind) THEN BatchResult(t) ELSE <<>>)

\* C18: no finding comes from a file of more than maximum_file_size * 1024
\* bytes, and a path scan that ended without cancel, below the cap and on a
\* walk without errors or skipped directories has a finding of every
\* readable file of exactly that size that holds a match.
C18_SizeCap ==
    \A t \in Tasks :
        /\ LET fs == FindingsAnywhere(t)
           IN \A k \in DOMAIN fs :
                 WalkOf(t, fs[k])[fs[k].file].size <= DefaultMaximumFileSize * 1024
        /\ (/\ req[t].kind = "path"
            /\ opts.max_secrets = DefaultMaxSecrets
            /\ \A i \in DOMAIN req[t].tree :
                  req[t].tree[i].kind # "err" /\ ~req[t].tree[i].skip)
              => \A i \in DOMAIN req[t].tree :
                    LET e == req[t].tree[i]
                    IN (/\ e.kind = "file"
                        /\ e.size = DefaultMaximumFileSize * 1024
                        /\ e.rd /\ e.c + e.s > 0)
                         => /\ HasFindingOf(ScanSecretsInDir(0, req[t].tree, "nil",
                                                             opts.max_secrets), i)
                            /\ (AllDone(t) /\ ~cancelled[t])
                                  => HasFindingOf(written[t], i)

\* A path scan has ended on a walk with a file of one byte more than the
\* limit that holds matches, followed by a file of exactly the limit whose
\* finding was delivered.
C18_Witness ==
    \E t \in Tasks :
        /\ req[t].kind = "path"
        /\ AllDone(t)
        /\ \E i, j \in DOMAIN req[t].tree :
              /\ i < j
              /\ req[t].tree[i].size = DefaultMaximumFileSize * 1024 + 1
              /\ req[t].tree[i].c + req[t].tree[i].s > 0
              /\ req[t].tree[j].size = DefaultMaximumFileSize * 1024
              /\ HasFindingOf(written[t], j)

\* Entry j of the walk lies below a directory of the skip list.
BelowSkipDir(tree, j) ==
    \E i \in DOMAIN tree :
        /\ tree[i].kind = "dir" /\ tree[i].skip
        /\ i < j /\ j < AfterDir(tree, i)

DistinctDispatch(t) ==
    /\ req[t].kind # "imageBatch"
    /\ \A u \in Tasks \ {t} : req[u].scan_id # req[t].scan_id

\* The deferred function of task t has deleted the table's entry.
ScanEnded(t) == task[t].pc \in {"deferSend", "deferClose", "done"}

TableHas(t) ==
    /\ req[t].scan_id \in DOMAIN ScanMap
    /\ ScanMap[req[t].scan_id] = t

\* C19 as stated: for distinct scan_ids, from the moment the status reporter
\* is started until the scan ends the scan table maps the scan_id to the
\* scan's context, and after the scan has ended it has no entry for it.
C19_TableFromReporterStart ==
    \A t \in Tasks :
        DistinctDispatch(t) =>
            /\ (task[t].ctx /\ ~ScanEnded(t)) => TableHas(t)
            /\ ScanEnded(t) => req[t].scan_id \notin DOMAIN ScanMap

\* C19 amended: for distinct scan_ids, from the moment DispatchScan has
\* stored the context (the statement after the start of the status
\* reporter) until the scan ends the scan table maps the scan_id to the
\* scan's context; before that and after the scan has ended, by any path,
\* it has no entry for it.
C19_TableFromStore ==
    \A t \in Tasks :
        DistinctDispatch(t) =>
            /\ (task[t].pc \notin {"start", "store"} /\ ~ScanEnded(t)) => TableHas(t)
            /\ (task[t].pc \in {"start", "store"} \/ ScanEnded(t))
                  => req[t].scan_id \notin DOMAIN ScanMap

\* Of two scans with distinct scan_ids one has ended after a cancel, and the
\* table holds the other, which is still running.
C19_Witness ==
    \E t, u \in Tasks :
        /\ t # u
        /\ DistinctDispatch(t) /\ DistinctDispatch(u)
        /\ task[t].pc = "done" /\ cancelled[t]
        /\ req[t].scan_id \notin DOMAIN ScanMap
        /\ ~ScanEnded(u) /\ TableHas(u)

\* C21: whenever the content matcher is called for a file, the rule-hit map
\* holds no count from a file scanned earlier in the walk, so that the cap of
\* a rule is applied to the matches of that file alone.
C21_RuleSetPerFile ==
    pure.fn = "WalkDir" =>
        \A k \in DOMAIN pure.out.calls :
            /\ pure.out.calls[k].seen = EmptyRuleSet
            /\ \A r \in Rules :
                  pure.out.calls[k].emitted[r]
                      = Min(pure.in.files[k][r], RuleCap(pure.in.multi))

\* C22: the start offset recorded for a content match is the offset of the
\* matched byte in the file as stored on disk; the end offset is past it by
\* the length of the match.
C22_OffsetsIntoDiskBytes ==
    (pure.fn = "scanFile" /\ pure.pc = "done") =>
        pure.out.offsets = MatchOffsets(pure.in)

\* C23: the path/name matcher runs before the content matcher, so among the
\* findings delivered for one file those of its path and name precede those
\* of its contents.
C23_MetadataBeforeContents ==
    \A t \in Tasks :
        \A i, j \in DOMAIN Delivered(t) :
            (/\ i < j
             /\ Delivered(t)[i].layer = Delivered(t)[j].layer
             /\ Delivered(t)[i].file = Delivered(t)[j].file)
                => ~(Delivered(t)[i].part = "contents" /\ Delivered(t)[j].part = "meta")

\* The findings of fs that come from the layers up to the k-th.
UpToLayer(fs, k) == {i \in DOMAIN fs : fs[i].layer <= k}

\* C24: a walk whose counter has reached max_secrets visits no further
\* entry, and an image scan whose walk has reached it goes to no later
\* layer: the callback is entered, and an iteration of the layer loop begun,
\* only with a count below max_secrets; what the batch image scan returns
\* holds no finding of a layer after one at which the count had reached it.
C24_StopsAtCap ==
    \A t \in Tasks :
        /\ walk[t].pc = "visit" => walk[t].numSecrets < opts.max_secrets
        /\ (layerG[t].pc = "loop" /\ layerG[t].i <= Len(ManifestLayers(req[t].image)))
              => layerG[t].numSecrets < opts.max_secrets
        /\ (req[t].kind = "imageBatch" /\ task[t].pc = StartPc("imageBatch"))
              => LET fs == BatchResult(t)
                 IN \A k \in DOMAIN req[t].image.layers :
                       Cardinality(UpToLayer(fs, k)) >= opts.max_secrets
                           => UpToLayer(fs, k) = DOMAIN fs

\* The layer loop of an image scan has ended before the last layer, after a
\* walk that ended at the cap before the last entry of its layer.
C24_Witness ==
    \E t \in Tasks :
        /\ req[t].kind = "image"
        /\ layerG[t].pc = "done"
        /\ layerG[t].i < Len(ManifestLayers(req[t].image))
        /\ walk[t].walkErr = "maxSecretsExceeded"
        /\ walk[t].i < Len(ManifestLayers(req[t].image)[layerG[t].i].tree)

\* The tree the walk of task t goes through.
CurrentTree(t) ==
    IF req[t].kind = "path" THEN req[t].tree
    ELSE LET ls == ManifestLayers(req[t].image)
         IN ls[LayerIndex(Len(ls), layerG[t].i)].tree

\* The callback is entered for an entry WalkDir reports without an error.
AtEntry(t) ==
    /\ walk[t].pc = "visit"
    /\ walk[t].i \in DOMAIN CurrentTree(t)
    /\ CurrentTree(t)[walk[t].i].kind # "err"

\* C25: Checkpoint is called for every entry before the entry is looked at:
\* a callback entered when the scan is cancelled returns the cancel error
\* and reads nothing; and once a walk has the cancel error it visits no
\* other entry and finds nothing more.
C25_CheckpointFirst ==
    [][\A t \in Tasks :
          /\ (AtEntry(t) /\ cancelled[t] /\ walk'[t] # walk[t])
                => /\ walk'[t].pc = "exit"
                   /\ walk'[t].walkErr = "cancelled"
                   /\ walk'[t].i = walk[t].i
                   /\ walk'[t].numSecrets = walk[t].numSecrets
                   /\ walk'[t].found = walk[t].found
                   /\ walk'[t].pending = <<>>
          /\ (walk[t].walkErr = "cancelled" /\ walk'[t].walkErr = "cancelled")
                => /\ walk'[t].pc \in {"exit", "done"}
                   /\ walk'[t].i = walk[t].i
                   /\ walk'[t].numSecrets = walk[t].numSecrets
                   /\ walk'[t].found = walk[t].found]_vars

\* A walk has ended with the cancel error at a file that holds matches, of
\* which it found none.
C25_Witness ==
    \E t \in Tasks :
        /\ walk[t].walkErr = "cancelled"
        /\ walk[t].pc = "done"
        /\ req[t].kind = "path"
        /\ walk[t].i \in DOMAIN req[t].tree
        /\ req[t].tree[walk[t].i].kind = "file"
        /\ req[t].tree[walk[t].i].c > 0
        /\ ~HasFindingOf(written[t], walk[t].i)

\* The walk of task t goes through an extracted image layer.
LayerScan(t) == req[t].kind \in {"image", "imageBatch"}

C27_DeletedBeforeClosedSeen ==
    \A t \in Tasks :
        (/\ req[t].kind = "image"
         /\ task[t].pc \in {"deferDelete", "deferSend", "deferClose", "done"})
            => tmpDir[t] # "exists"

\* C28: in an image scan, once Checkpoint has returned the cancel error to
\* a walk, no other layer is untarred and no other walk is begun.
C28_NoLayerAfterCancelSeen ==
    [][\A t \in Tasks :
          (req[t].kind = "image" /\ walk[t].walkErr = "cancelled")
              => /\ layerG'[t].extracted = layerG[t].extracted
                 /\ walk'[t].pc = "visit" => walk[t].pc = "visit"]_vars

\* The stream scan of task t has ended: DispatchScan has returned, every
\* goroutine it started has ended, and every channel they made is closed.
Terminated(t) ==
    /\ AllDone(t)
    /\ ~panicked[t]
    /\ walk[t].pending = <<>> /\ layerG[t].pending = <<>> /\ relayG[t].cur = <<>>
    /\ req[t].kind = "path" => stream[t].closed
    /\ (req[t].kind = "image" /\ relayG[t].pc = "done")
          => stream[t].closed /\ relay[t].closed
    /\ resChan[t].closed

\* C29: every stream scan DispatchScan starts ends: its goroutines end, the
\* channels are closed, and none stays blocked on a send.
C29_Terminates ==
    <>(\A t \in Tasks : req[t].kind # "imageBatch" => Terminated(t))

\* An image scan has ended whose goroutines all ran, after a cancel.
C29_Witness ==
    \E t \in Tasks :
        /\ req[t].kind = "image"
        /\ Terminated(t)
        /\ relayG[t].pc = "done" /\ layerG[t].pc = "done"
        /\ cancelled[t]
        /\ written[t] # <<>>

\* Every producer of task t has sent its last finding, and the consumer has
\* written every finding that was sent.
AllWritten(t) ==
    /\ walk[t].pc \in {"idle", "done"}
    /\ layerG[t].pc \in {"idle", "done"}
    /\ relayG[t].pc \in {"idle", "delete", "done"}
    /\ written[t] = Emitted(t)

\* C30: a DispatchScan task sends one outcome, the value of err at its exit,
\* on the result channel and then closes the channel: never a second
\* outcome, never a close without one, and a task that has ended has done
\* both.  When the outcome is sent, the task's entry is gone from the scan
\* table and every finding of the scan has been written.
C30_OneOutcomeAfterAll ==
    \A t \in Tasks :
        req[t].kind # "imageBatch" =>
            /\ Len(resChan[t].buf) <= 1
            /\ resChan[t].closed => Len(resChan[t].buf) = 1
            /\ resChan[t].buf # <<>> <=> task[t].pc \in {"deferClose", "done"}
            /\ resChan[t].closed <=> task[t].pc = "done"
            /\ resChan[t].buf # <<>> =>
                  /\ resChan[t].buf = <<task[t].err>>
                  /\ ~TableHas(t)
                  /\ AllWritten(t)

\* An image scan has ended with outcome nil after its findings were written
\* and its entry was deleted.
C30_Witness ==
    \E t \in Tasks :
        /\ req[t].kind = "image"
        /\ resChan[t] = [buf |-> <<"nil">>, closed |-> TRUE]
        /\ written[t] # <<>>
        /\ req[t].scan_id \notin DOMAIN ScanMap

\* C31: a request with an empty path, no image name and no container id
\* starts no traversal (no walker, layer loop or relay, no temp workspace)
\* and writes no finding; the one outcome it sends is the "Invalid request"
\* error, and when the outcome is sent the scan table has no entry of it.
C31_InvalidRequest ==
    \A t \in Tasks :
        req[t].kind = "invalid" =>
            /\ walk[t] = IdleWalk
            /\ layerG[t] = IdleLayerG
            /\ relayG[t] = IdleRelayG
            /\ tmpDir[t] \notin {"exists", "deleted"}
            /\ Emitted(t) = <<>>
            /\ resChan[t].buf \in {<<>>, <<"Invalid request">>}
            /\ task[t].pc \in {"deferClose", "done"} =>
                  /\ resChan[t].buf = <<"Invalid request">>
                  /\ ~TableHas(t)

\* The task of an invalid request has ended: its entry was stored and
\* removed, and the error was sent on the closed result channel.
C31_Witness ==
    \E t \in Tasks :
        /\ req[t].kind = "invalid"
        /\ task[t].pc = "done" /\ task[t].ctx
        /\ resChan[t] = [buf |-> <<"Invalid request">>, closed |-> TRUE]
        /\ req[t].scan_id \notin DOMAIN ScanMap

====
